---- MODULE Spec2Model ----
(***************************************************************************)
(* Picolo: an HTTP proxy in front of Dialogflow.  The repository holds     *)
(* the proxy in two variants: ES (Dialogflow V2, src/main.go and the first *)
(* program of src/unnamed/part_003) and CX (Dialogflow CX v3, the second   *)
(* program of src/unnamed/part_003, lines 230-484).                        *)
(*                                                                         *)
(* A string is a sequence of tokens.  The token "/" is the path separator; *)
(* every other token stands for a run of characters without a slash.       *)
(***************************************************************************)
EXTENDS Integers, Sequences, FiniteSets, TLC

VARIABLES
    variant,     \* "ES" or "CX": which program is running
    env,         \* the process environment (os.LookupEnv)
    phase,       \* "boot" | "serving" | "exited"
    appConfig,   \* the global appConfig, <<>> before loadConfig has run
    reqs,        \* the exchanges of this run: request, upstream query, response
    sessionsClient, \* the global upstream client: "nil" | "open"
    uuids,       \* number of identifiers uuid.NewString has handed out
    health       \* the last exchange on /healthz, <<>> before the first

vars == <<variant, env, phase, appConfig, reqs, sessionsClient, uuids, health>>

----------------------------------------------------------------------------
(* Bounds of the model. *)

MaxRequests == 2    \* exchanges kept by Spec
MaxIdemRequests == 3 \* exchanges kept by SpecIdem
MaxStrLen == 1      \* length of the client's agentId and sessionId in SpecNorm
MaxUUIDs == 2       \* identifiers uuid.NewString may hand out in a run
MaxMessages == 2    \* messages in an upstream result in SpecExtract
MaxTexts == 2       \* text entries of a text message in SpecExtract

(* Durations of the program, in seconds. *)

\* context.WithTimeout(r.Context(), 30*time.Second)
UpstreamTimeout == 30
\* http.Server.WriteTimeout
WriteTimeout == 10
\* http.Server.ReadTimeout
ReadTimeout == 10

----------------------------------------------------------------------------
(* Strings. *)

EmptyStr == <<>>
Slash == "/"

RECURSIVE Join(_)
\* the concatenation of a sequence of strings
Join(parts) ==
    IF parts = <<>> THEN EmptyStr ELSE Head(parts) \o Join(Tail(parts))

RECURSIVE Split(_)
\* strings.Split(s, "/"): the segments between the slashes, empty ones kept
Split(s) ==
    IF \A i \in 1..Len(s) : s[i] # Slash
    THEN <<s>>
    ELSE LET k == CHOOSE i \in 1..Len(s) :
                      s[i] = Slash /\ \A j \in 1..(i - 1) : s[j] # Slash
         IN  <<SubSeq(s, 1, k - 1)>> \o Split(SubSeq(s, k + 1, Len(s)))

\* all strings over alphabet of length at most n
StrsUpTo(alphabet, n) == UNION {[1..k -> alphabet] : k \in 0..n}

----------------------------------------------------------------------------
(* Environment and configuration. *)

Unset == <<>>
SetTo(s) == <<s>>

\* os.LookupEnv wrapped by getEnv: the value if the variable exists, else the fallback
getEnv(key, fallback) ==
    IF env[key] # Unset THEN env[key][1] ELSE fallback

\* the fallback of DEFAULT_DIALOGFLOW_AGENT_ID written in loadConfig (CX)
ExampleAgentID == <<"1891c50e-e0b6-44cc-b1f0-cc7d04bc73b2">>

loadConfigES ==
    [ProjectID     |-> getEnv("DIALOGFLOW_PROJECT_ID", EmptyStr),
     LocationID    |-> getEnv("DIALOGFLOW_LOCATION_ID", EmptyStr),
     AllowedOrigin |-> getEnv("ALLOWED_ORIGIN", <<"*">>),
     Port          |-> getEnv("PORT", <<"8080">>)]

loadConfigCX ==
    [ProjectID      |-> getEnv("DIALOGFLOW_PROJECT_ID", EmptyStr),
     LocationID     |-> getEnv("DIALOGFLOW_LOCATION_ID", EmptyStr),
     AllowedOrigin  |-> getEnv("ALLOWED_ORIGIN", <<"*">>),
     Port           |-> getEnv("PORT", <<"8080">>),
     DefaultAgentID |-> getEnv("DEFAULT_DIALOGFLOW_AGENT_ID", ExampleAgentID)]

loadConfig == IF variant = "CX" THEN loadConfigCX ELSE loadConfigES

\* a check of the project alone
ConfigFatal_ProjectOnly(cfg) == cfg.ProjectID = EmptyStr

\* log.Fatal in loadConfig: the process exits when project or location is empty
ConfigFatal(cfg) == cfg.ProjectID = EmptyStr \/ cfg.LocationID = EmptyStr

Environments ==
    [DIALOGFLOW_PROJECT_ID       : {Unset, SetTo(EmptyStr), SetTo(<<"proj">>)},
     DIALOGFLOW_LOCATION_ID      : {Unset, SetTo(EmptyStr), SetTo(<<"loc">>)},
     DEFAULT_DIALOGFLOW_AGENT_ID : {Unset, SetTo(EmptyStr), SetTo(<<"d">>)},
     ALLOWED_ORIGIN              : {Unset},
     PORT                        : {Unset}]

----------------------------------------------------------------------------
(* The inbound request. *)

\* A JSON field of the body: absent, or present with a string value.
Absent == <<>>
Present(s) == <<s>>
Field(f) == IF f = Absent THEN EmptyStr ELSE f[1]

(* The body of a request.  kind is what the bytes are:                      *)
(*   "object"    a JSON object whose known fields are strings               *)
(*   "trailing"  such an object followed by bytes that are not JSON         *)
(*   "wrongtype" a JSON object with a known field that is not a string      *)
(*   "notjson"   bytes that start no JSON value (a syntax error, no bytes)  *)
(* and the four fields are the string-valued known fields it spells out.    *)
DecodableKinds == {"object", "trailing"}
MalformedKinds == {"wrongtype", "notjson"}

\* var req DetectIntentRequest: the zero value
ZeroRequest ==
    [Message |-> EmptyStr, AgentID |-> EmptyStr,
     SessionID |-> EmptyStr, LanguageCode |-> EmptyStr]

(* json.NewDecoder(r.Body).Decode(&req).  The decoder reads the first JSON  *)
(* value of the stream and stops there: bytes after it are never looked at. *)
(* A field of the wrong JSON type is an error (the other fields are still   *)
(* stored); bytes that are no JSON value are an error and store nothing.    *)
Decode(body) ==
    [err |-> body.kind \in MalformedKinds,
     req |-> IF body.kind = "notjson"
             THEN ZeroRequest
             ELSE [Message      |-> Field(body.message),
                   AgentID      |-> Field(body.agentId),
                   SessionID    |-> Field(body.sessionId),
                   LanguageCode |-> Field(body.languageCode)]]

\* a method check that lets every method through to the decoder
MethodNotAllowed_Never(r) == FALSE

\* r.Method != http.MethodPost
MethodNotAllowed(r) == r.method # "POST"

----------------------------------------------------------------------------
(* Request normalisation, ES variant (src/main.go). *)

\* a validation that forgets the message
MissingFieldES_AgentOnly(req) == req.AgentID = EmptyStr

MissingFieldES(req) == req.Message = EmptyStr \/ req.AgentID = EmptyStr

\* a generator that returns the same identifier on every call
NewString_Fixed == <<"uuid-1">>

\* uuid.NewString(): an identifier no earlier call of this run returned
NewString == <<"uuid-" \o ToString(uuids + 1)>>

GeneratesSessionID(req) == req.SessionID = EmptyStr

sessionIDES(req) == IF GeneratesSessionID(req) THEN NewString ELSE req.SessionID

\* a fallback kept in a global: the language code of the previous call
langCodeES_LastUsed(req) ==
    IF req.LanguageCode # EmptyStr
    THEN req.LanguageCode
    ELSE IF reqs # <<>> /\ reqs[Len(reqs)].query # <<>>
    THEN reqs[Len(reqs)].query[1].LanguageCode
    ELSE <<"en-US">>

\* a fallback kept in a global: once a call has used "en-US", every later
\* call uses it too
langCodeES_FallbackKept(req) ==
    IF \E k \in 1..Len(reqs) :
           reqs[k].query # <<>> /\ reqs[k].query[1].LanguageCode = <<"en-US">>
    THEN <<"en-US">>
    ELSE IF req.LanguageCode = EmptyStr THEN <<"en-US">> ELSE req.LanguageCode

langCodeES(req) ==
    IF req.LanguageCode = EmptyStr THEN <<"en-US">> ELSE req.LanguageCode

sessionPathES(sessionID) ==
    Join(<< <<"projects", Slash>>, appConfig.ProjectID,
            <<Slash, "locations", Slash>>, appConfig.LocationID,
            <<Slash, "agent", Slash, "sessions", Slash>>, sessionID >>)

\* a session path that carries the agent id of the request
dialogflowRequestES_WithAgent(req) ==
    [Session      |-> Join(<< <<"projects", Slash>>, appConfig.ProjectID,
                              <<Slash, "locations", Slash>>, appConfig.LocationID,
                              <<Slash, "agents", Slash>>, req.AgentID,
                              <<Slash, "sessions", Slash>>, sessionIDES(req) >>),
     Text         |-> req.Message,
     LanguageCode |-> langCodeES(req)]

dialogflowRequestES(req) ==
    [Session      |-> sessionPathES(sessionIDES(req)),
     Text         |-> req.Message,
     LanguageCode |-> langCodeES(req)]

----------------------------------------------------------------------------
(* Request normalisation, CX variant (src/unnamed/part_003, second program). *)

\* a default that overrides the agent id of the request
agentIDCX_DefaultWins(req) ==
    IF appConfig.DefaultAgentID # EmptyStr THEN appConfig.DefaultAgentID ELSE req.AgentID

agentIDCX(req) ==
    IF req.AgentID = EmptyStr THEN appConfig.DefaultAgentID ELSE req.AgentID

sessionIDCX(req) == req.SessionID

MissingFieldCX(req) ==
    \/ req.Message = EmptyStr
    \/ agentIDCX(req) = EmptyStr
    \/ sessionIDCX(req) = EmptyStr

\* a language code passed on as received, without the fallback
langCodeCX_NoFallback(req) == req.LanguageCode

langCodeCX(req) ==
    IF req.LanguageCode = EmptyStr THEN <<"en">> ELSE req.LanguageCode

sessionPathCX(agentID, sessionID) ==
    Join(<< <<"projects", Slash>>, appConfig.ProjectID,
            <<Slash, "locations", Slash>>, appConfig.LocationID,
            <<Slash, "agents", Slash>>, agentID,
            <<Slash, "sessions", Slash>>, sessionID >>)

dialogflowRequestCX(req) ==
    [Session      |-> sessionPathCX(agentIDCX(req), sessionIDCX(req)),
     Text         |-> req.Message,
     LanguageCode |-> langCodeCX(req)]

----------------------------------------------------------------------------
(* Exchanges: one per inbound request. *)

(* Besides the request and the response, an exchange records the handler's  *)
(* locals, the number of times it has called DetectIntent, and the reply    *)
(* DetectIntent gave it.                                                    *)

\* the handler has answered without calling upstream (http.Error and return)
Answer(r, status, text) ==
    [method |-> r.method, body |-> r.body, stage |-> "done",
     sessionID |-> EmptyStr, generated |-> FALSE, query |-> <<>>,
     calls |-> 0, reply |-> <<>>, bodyRead |-> 0, elapsed |-> 0,
     cancelled |-> FALSE,
     status |-> status, text |-> text, json |-> <<>>]

\* the handler is blocked in sessionsClient.DetectIntent(ctx, dialogflowRequest)
Calling(r, sessionID, generated, dialogflowRequest) ==
    [method |-> r.method, body |-> r.body, stage |-> "upstream",
     sessionID |-> sessionID, generated |-> generated,
     query |-> <<dialogflowRequest>>,
     calls |-> 1, reply |-> <<>>, bodyRead |-> 0, elapsed |-> 0,
     cancelled |-> FALSE,
     status |-> 0, text |-> EmptyStr, json |-> <<>>]

\* detectIntentHandler up to the upstream call, ES variant
detectIntentHandlerES(r) ==
    LET d == Decode(r.body) IN
    IF MethodNotAllowed(r)
    THEN Answer(r, 405, <<"Method not allowed">>)
    ELSE IF d.err
    THEN Answer(r, 400, <<"Invalid request body">>)
    ELSE IF MissingFieldES(d.req)
    THEN Answer(r, 400, <<"Missing required fields: message and agentId">>)
    ELSE Calling(r, sessionIDES(d.req), GeneratesSessionID(d.req),
                 dialogflowRequestES(d.req))

\* detectIntentHandler up to the upstream call, CX variant
detectIntentHandlerCX(r) ==
    LET d == Decode(r.body) IN
    IF MethodNotAllowed(r)
    THEN Answer(r, 405, <<"Method not allowed">>)
    ELSE IF d.err
    THEN Answer(r, 400, <<"Invalid request body">>)
    ELSE IF MissingFieldCX(d.req)
    THEN Answer(r, 400, <<"Missing required fields: message, agentId, sessionId">>)
    ELSE Calling(r, sessionIDCX(d.req), FALSE, dialogflowRequestCX(d.req))

detectIntentHandler(r) ==
    IF variant = "CX" THEN detectIntentHandlerCX(r) ELSE detectIntentHandlerES(r)

----------------------------------------------------------------------------
(* The upstream reply and the response built from it. *)

\* a response that leaves the parameters of the result out
apiResponseES_NoParameters(result, sessionID) ==
    [fulfillmentText     |-> result.FulfillmentText,
     fulfillmentMessages |-> result.FulfillmentMessages,
     intent              |-> IF result.Intent = <<>>
                             THEN EmptyStr
                             ELSE result.Intent[1].DisplayName,
     parameters          |-> <<>>,
     sessionId           |-> sessionID]

\* response.GetQueryResult() and the nil-safe getters of the ES result
apiResponseES(result, sessionID) ==
    [fulfillmentText     |-> result.FulfillmentText,
     fulfillmentMessages |-> result.FulfillmentMessages,
     intent              |-> IF result.Intent = <<>>
                             THEN EmptyStr
                             ELSE result.Intent[1].DisplayName,
     parameters          |-> result.Parameters,
     sessionId           |-> sessionID]

\* an extractor that takes the last text of the first message
responseTextCX_LastText(queryResult) ==
    LET responseMessages == queryResult.ResponseMessages IN
    IF Len(responseMessages) > 0
    THEN LET textMessage == responseMessages[1].Text IN
         IF textMessage # <<>>
         THEN LET texts == textMessage[1].Text IN
              IF Len(texts) > 0 THEN texts[Len(texts)] ELSE EmptyStr
         ELSE EmptyStr
    ELSE EmptyStr

\* an extractor that scans the messages for the first text-typed one
responseTextCX_ScanAll(queryResult) ==
    LET responseMessages == queryResult.ResponseMessages
        textual == {k \in 1..Len(responseMessages) :
                       /\ responseMessages[k].Text # <<>>
                       /\ Len(responseMessages[k].Text[1].Text) > 0}
    IN  IF textual = {}
        THEN EmptyStr
        ELSE LET k == CHOOSE k \in textual : \A j \in textual : k <= j
             IN  responseMessages[k].Text[1].Text[1]

\* the text of the first response message, CX variant
responseTextCX(queryResult) ==
    LET responseMessages == queryResult.ResponseMessages IN
    IF Len(responseMessages) > 0
    THEN LET textMessage == responseMessages[1].Text IN
         IF textMessage # <<>>
         THEN LET texts == textMessage[1].Text IN
              IF Len(texts) > 0 THEN texts[1] ELSE EmptyStr
         ELSE EmptyStr
    ELSE EmptyStr

apiResponseCX(queryResult, sessionID) ==
    [text |-> responseTextCX(queryResult), sessionId |-> sessionID]

\* a handler that answers a reply without query result like an empty result
Respond_NilResultIs200(x, reply, encodeFails, apiLabel, emptyLabel, apiResponse) ==
    IF reply.err # <<>>
    THEN [x EXCEPT !.stage = "done", !.reply = <<reply>>, !.status = 500,
                   !.text = <<apiLabel>> \o reply.err[1]]
    ELSE IF reply.result = <<>>
    THEN [x EXCEPT !.stage = "done", !.reply = <<reply>>, !.status = 200]
    ELSE IF encodeFails
    THEN [x EXCEPT !.stage = "done", !.reply = <<reply>>, !.status = 200,
                   !.text = <<"Failed to encode response">>]
    ELSE [x EXCEPT !.stage = "done", !.reply = <<reply>>, !.status = 200,
                   !.json = <<apiResponse>>]

\* a handler that calls DetectIntent a second time when the first call fails
Respond_RetryOnce(x, reply, encodeFails, apiLabel, emptyLabel, apiResponse) ==
    IF reply.err # <<>>
    THEN [x EXCEPT !.stage = "done", !.reply = <<reply>>, !.status = 500,
                   !.calls = @ + 1,
                   !.text = <<apiLabel>> \o reply.err[1]]
    ELSE IF reply.result = <<>>
    THEN [x EXCEPT !.stage = "done", !.reply = <<reply>>, !.status = 500,
                   !.text = <<emptyLabel>>]
    ELSE IF encodeFails
    THEN [x EXCEPT !.stage = "done", !.reply = <<reply>>, !.status = 200,
                   !.text = <<"Failed to encode response">>]
    ELSE [x EXCEPT !.stage = "done", !.reply = <<reply>>, !.status = 200,
                   !.json = <<apiResponse>>]

\* a handler that keeps the upstream error message out of the 500 body
Respond_ErrorTextDropped(x, reply, encodeFails, apiLabel, emptyLabel, apiResponse) ==
    IF reply.err # <<>>
    THEN [x EXCEPT !.stage = "done", !.reply = <<reply>>, !.status = 500,
                   !.text = <<apiLabel>>]
    ELSE IF reply.result = <<>>
    THEN [x EXCEPT !.stage = "done", !.reply = <<reply>>, !.status = 500,
                   !.text = <<emptyLabel>>]
    ELSE IF encodeFails
    THEN [x EXCEPT !.stage = "done", !.reply = <<reply>>, !.status = 200,
                   !.text = <<"Failed to encode response">>]
    ELSE [x EXCEPT !.stage = "done", !.reply = <<reply>>, !.status = 200,
                   !.json = <<apiResponse>>]

(* The rest of detectIntentHandler, from the return of DetectIntent.  The   *)
(* status 200 is written before the body is encoded: when encoding fails,   *)
(* http.Error can no longer change it and only appends its text.            *)
Respond(x, reply, encodeFails, apiLabel, emptyLabel, apiResponse) ==
    IF reply.err # <<>>
    THEN [x EXCEPT !.stage = "done", !.reply = <<reply>>, !.status = 500,
                   !.text = <<apiLabel>> \o reply.err[1]]
    ELSE IF reply.result = <<>>
    THEN [x EXCEPT !.stage = "done", !.reply = <<reply>>, !.status = 500,
                   !.text = <<emptyLabel>>]
    ELSE IF encodeFails
    THEN [x EXCEPT !.stage = "done", !.reply = <<reply>>, !.status = 200,
                   !.text = <<"Failed to encode response">>]
    ELSE [x EXCEPT !.stage = "done", !.reply = <<reply>>, !.status = 200,
                   !.json = <<apiResponse>>]

RespondES(x, reply, encodeFails) ==
    Respond(x, reply, encodeFails, "Dialogflow API error: ",
            "Dialogflow returned empty result",
            IF reply.err = <<>> /\ reply.result # <<>>
            THEN apiResponseES(reply.result[1], x.sessionID) ELSE <<>>)

RespondCX(x, reply, encodeFails) ==
    Respond(x, reply, encodeFails, "Dialogflow CX API error: ",
            "Dialogflow CX returned empty result",
            IF reply.err = <<>> /\ reply.result # <<>>
            THEN apiResponseCX(reply.result[1], x.sessionID) ELSE <<>>)

----------------------------------------------------------------------------
(* Inputs. *)

Methods == {"POST", "GET", "PUT"}

BodiesOver(kinds, messages, agentIds, sessionIds, languageCodes) ==
    [kind : kinds, message : messages, agentId : agentIds,
     sessionId : sessionIds, languageCode : languageCodes]

OptionalField(values) == {Absent} \cup {Present(v) : v \in values}

\* Requests of SpecNorm: every kind of body, ids over the alphabet {a, /}.
NormIds == StrsUpTo({"a", Slash}, MaxStrLen)

NormRequests ==
    [method : Methods,
     body   : BodiesOver(DecodableKinds \cup MalformedKinds,
                         OptionalField({EmptyStr, <<"hi">>}),
                         OptionalField(NormIds),
                         OptionalField(NormIds),
                         OptionalField({EmptyStr, <<"id">>}))]

\* Requests of Spec: well-formed bodies with a message and few values of the
\* other fields (an agent or none, a session or none, a language or none),
\* and bodies that are no JSON under each method.
SeqRequests ==
    [method : {"POST"},
     body   : BodiesOver({"object"},
                         {Present(<<"hi">>)},
                         {Present(EmptyStr), Present(<<"a1">>), Present(<<"a2">>)},
                         {Absent, Present(<<"s1">>)},
                         {Absent, Present(<<"id">>)})]
    \cup
    [method : Methods,
     body   : BodiesOver({"notjson"}, {Absent}, {Absent}, {Absent}, {Absent})]

NoError == <<>>
NilResult == <<>>

ESResults ==
    {[FulfillmentText |-> <<"Hi there">>, FulfillmentMessages |-> <<>>,
      Intent |-> <<>>, Parameters |-> <<>>],
     [FulfillmentText |-> <<"Hi there">>, FulfillmentMessages |-> << <<"Hi there">> >>,
      Intent |-> <<[DisplayName |-> <<"greet">>]>>, Parameters |-> <<>>]}

CXResults ==
    {[ResponseMessages |-> <<>>],
     [ResponseMessages |-> <<[Text |-> <<[Text |-> << <<"Hello!">> >>]>>]>>]}

Results == IF variant = "CX" THEN CXResults ELSE ESResults

\* what DetectIntent may return: an error, a response without a query result,
\* or a response with one
Replies ==
    {[err |-> <<<<"rpc error">>>>, result |-> NilResult],
     [err |-> NoError, result |-> NilResult]}
    \cup {[err |-> NoError, result |-> <<res>>] : res \in Results}

SeqReplies ==
    {[err |-> <<<<"rpc error">>>>, result |-> NilResult]}
    \cup {[err |-> NoError, result |-> <<res>>] : res \in Results}

\* Requests of SpecExtract: valid ones, with and without a session id.
ExtractRequests ==
    [method : {"POST"},
     body   : BodiesOver({"object"}, {Present(<<"hi">>)}, {Present(<<"a1">>)},
                         {Absent, Present(<<"s1">>)}, {Absent})]

(* Upstream results of SpecExtract.  A CX response message is text-typed    *)
(* (Text holds the message's list of texts) or of another type (GetText()   *)
(* is nil, Text is <<>>).  An ES result has an intent or none (<<>>), and a *)
(* parameter struct or none.                                                *)
CXMessages ==
    {[Text |-> <<>>]}
    \cup {[Text |-> <<[Text |-> texts]>>] :
              texts \in StrsUpTo({EmptyStr, <<"Hello!">>}, MaxTexts)}

RichCXResults == [ResponseMessages : StrsUpTo(CXMessages, MaxMessages)]

RichESResults ==
    [FulfillmentText     : {EmptyStr, <<"Hi there">>},
     FulfillmentMessages : StrsUpTo({<<"Hi there">>, <<"card">>}, MaxMessages),
     Intent              : {<<>>, <<[DisplayName |-> EmptyStr]>>,
                            <<[DisplayName |-> <<"greet">>]>>},
     Parameters          : {<<>>, <<"city">>}]

RichResults == IF variant = "CX" THEN RichCXResults ELSE RichESResults

ExtractReplies ==
    {[err |-> <<<<"rpc error">>>>, result |-> NilResult],
     [err |-> NoError, result |-> NilResult]}
    \cup {[err |-> NoError, result |-> <<res>>] : res \in RichResults}

\* Requests of SpecFlow: with no session id, with one of the client's own,
\* and with one the server generated; and one of each error.
FlowRequests ==
    [method : {"POST"},
     body   : BodiesOver({"object"},
                         {Present(EmptyStr), Present(<<"hi">>)},
                         {Present(<<"a1">>)},
                         {Absent, Present(<<"s1">>), Present(<<"uuid-1">>)},
                         {Absent})]
    \cup
    [method : Methods,
     body   : BodiesOver({"notjson"}, {Absent}, {Absent}, {Absent}, {Absent})]

\* Requests of SpecIdem: a fully specified one, the same without a session
\* id (the ES variant generates one; the CX variant rejects it), and the
\* same without a language code.
IdemRequests ==
    [method : {"POST"},
     body   : {[kind |-> "object", message |-> Present(<<"hi">>),
                agentId |-> Present(<<"a1">>), sessionId |-> Present(<<"s1">>),
                languageCode |-> Present(<<"id">>)],
               [kind |-> "object", message |-> Present(<<"hi">>),
                agentId |-> Present(<<"a1">>), sessionId |-> Absent,
                languageCode |-> Present(<<"id">>)],
               [kind |-> "object", message |-> Present(<<"hi">>),
                agentId |-> Present(<<"a1">>), sessionId |-> Present(<<"s1">>),
                languageCode |-> Absent]}]

\* Replies of SpecIdem: an error, or a result with a message
IdemReplies ==
    {[err |-> <<<<"rpc error">>>>, result |-> NilResult]}
    \cup {[err |-> NoError, result |-> <<res>>] :
              res \in {r \in Results : IF variant = "CX"
                                      THEN r.ResponseMessages # <<>>
                                      ELSE r.FulfillmentMessages # <<>>}}

\* Requests of SpecConc: valid ones that differ in agent, session and
\* language, and one that is rejected.
ConcRequests ==
    [method : {"POST"},
     body   : {[kind |-> "object", message |-> Present(<<"hi">>),
                agentId |-> Present(<<"a1">>), sessionId |-> Absent,
                languageCode |-> Absent],
               [kind |-> "object", message |-> Present(<<"hi">>),
                agentId |-> Present(<<"a2">>), sessionId |-> Present(<<"s1">>),
                languageCode |-> Present(<<"id">>)],
               [kind |-> "object", message |-> Present(<<"bye">>),
                agentId |-> Present(<<"a1">>), sessionId |-> Present(<<"s2">>),
                languageCode |-> Absent],
               [kind |-> "object", message |-> Absent,
                agentId |-> Present(<<"a2">>), sessionId |-> Present(<<"s1">>),
                languageCode |-> Present(<<"id">>)]}]

\* Requests to /healthz: any method, with or without a body.
HealthRequests == [method : Methods, body : {EmptyStr, <<"x">>}]

----------------------------------------------------------------------------
(* The state machine. *)

ZeroConfig ==
    IF variant = "CX"
    THEN [ProjectID |-> EmptyStr, LocationID |-> EmptyStr, AllowedOrigin |-> EmptyStr,
          Port |-> EmptyStr, DefaultAgentID |-> EmptyStr]
    ELSE [ProjectID |-> EmptyStr, LocationID |-> EmptyStr, AllowedOrigin |-> EmptyStr,
          Port |-> EmptyStr]

Init ==
    /\ variant \in {"ES", "CX"}
    /\ env \in Environments
    /\ phase = "boot"
    /\ appConfig = ZeroConfig
    /\ sessionsClient = "nil"
    /\ reqs = <<>>
    /\ uuids = 0
    /\ health = <<>>

(* main up to ListenAndServe: loadConfig exits the process when the project *)
(* or the location is empty; otherwise the client is created (a failure to  *)
(* create it exits) and the server starts listening (a failure to listen    *)
(* exits through log.Fatalf, with the client created and not closed).       *)
Main ==
    /\ phase = "boot"
    /\ \E clientErr \in BOOLEAN, listenErr \in BOOLEAN :
         LET cfg == loadConfig IN
         IF ConfigFatal(cfg)
         THEN /\ phase' = "exited"
              /\ UNCHANGED <<appConfig, sessionsClient>>
         ELSE /\ appConfig' = cfg
              /\ phase' = IF clientErr \/ listenErr THEN "exited" ELSE "serving"
              /\ sessionsClient' = IF clientErr THEN "nil" ELSE "open"
    /\ UNCHANGED <<variant, env, reqs, uuids, health>>

(* ListenAndServe returns an error while the server runs (a failed Accept): *)
(* log.Fatalf ends the process, the deferred Close does not run, and the    *)
(* handlers in flight end with the process.                                 *)
ListenAndServeFails ==
    /\ phase = "serving"
    /\ phase' = "exited"
    /\ UNCHANGED <<variant, env, appConfig, reqs, sessionsClient, uuids, health>>

(* a request arrives and its handler runs up to its answer or its upstream  *)
(* call; the body is read (json Decode) bodyRead seconds after the header   *)
(* was read                                                                 *)
ReceiveAfter(requests, log, delays) ==
    /\ phase = "serving"
    /\ \E r \in requests, bodyRead \in delays :
         LET x == [detectIntentHandler(r) EXCEPT !.bodyRead = bodyRead] IN
         /\ x.generated => uuids < MaxUUIDs
         /\ reqs' = Append(log, x)
         /\ uuids' = IF x.generated THEN uuids + 1 ELSE uuids
    /\ UNCHANGED <<variant, env, phase, appConfig, sessionsClient, health>>

\* a request whose body is there with its header
Receive(requests, log) == ReceiveAfter(requests, log, {0})

\* DetectIntent returns to the handler of exchange i, which answers
UpstreamReturns(replies) ==
    /\ phase = "serving"
    /\ \E i \in 1..Len(reqs) :
         /\ reqs[i].stage = "upstream"
         /\ \E reply \in replies, encodeFails \in BOOLEAN :
                reqs' = [reqs EXCEPT ![i] =
                            IF variant = "CX"
                            THEN RespondCX(reqs[i], reply, encodeFails)
                            ELSE RespondES(reqs[i], reply, encodeFails)]
    /\ UNCHANGED <<variant, env, phase, appConfig, sessionsClient, uuids, health>>

\* a health check that accepts GET only
healthCheckHandler_GetOnly(r) ==
    IF r.method = "GET"
    THEN [method |-> r.method, body |-> r.body, status |-> 200, text |-> <<"OK">>]
    ELSE [method |-> r.method, body |-> r.body, status |-> 405,
          text |-> <<"Method not allowed">>]

\* healthCheckHandler: w.WriteHeader(http.StatusOK); w.Write([]byte("OK"))
healthCheckHandler(r) ==
    [method |-> r.method, body |-> r.body, status |-> 200, text |-> <<"OK">>]

\* a request to /healthz arrives and is answered
HealthCheck ==
    /\ phase = "serving"
    /\ \E r \in HealthRequests : health' = <<healthCheckHandler(r)>>
    /\ UNCHANGED <<variant, env, phase, appConfig, reqs, sessionsClient, uuids>>

\* Spec: up to MaxRequests requests, handled concurrently
ReceiveSeq == Len(reqs) < MaxRequests /\ Receive(SeqRequests, reqs)

Next == Main \/ ReceiveSeq \/ UpstreamReturns(SeqReplies) \/ ListenAndServeFails

Spec == Init /\ [][Next]_vars

\* SpecIdem: up to MaxIdemRequests requests, handled concurrently, among
\* them the same fully specified request sent again, with other requests
\* before it, between the two and after them
ReceiveIdem == Len(reqs) < MaxIdemRequests /\ Receive(IdemRequests, reqs)

NextIdem ==
    \/ Main
    \/ ReceiveIdem
    \/ UpstreamReturns(IdemReplies)
    \/ ListenAndServeFails

SpecIdem == Init /\ [][NextIdem]_vars

\* SpecNorm: one request, of any shape, followed through the server
ReceiveNorm == reqs = <<>> /\ Receive(NormRequests, reqs)

NextNorm == Main \/ ReceiveNorm \/ UpstreamReturns(Replies) \/ ListenAndServeFails

SpecNorm == Init /\ [][NextNorm]_vars

\* SpecExtract: one valid request, and every shape of upstream reply
ReceiveExtract == reqs = <<>> /\ Receive(ExtractRequests, reqs)

NextExtract ==
    \/ Main
    \/ ReceiveExtract
    \/ UpstreamReturns(ExtractReplies)
    \/ ListenAndServeFails

SpecExtract == Init /\ [][NextExtract]_vars

\* SpecFlow: up to MaxRequests requests, handled concurrently, among them
\* requests that send a generated session id back; and requests to /healthz
ReceiveFlow == Len(reqs) < MaxRequests /\ Receive(FlowRequests, reqs)

NextFlow ==
    \/ Main
    \/ ReceiveFlow
    \/ UpstreamReturns(Replies)
    \/ HealthCheck
    \/ ListenAndServeFails

SpecFlow == Init /\ [][NextFlow]_vars

(* Time and cancellation.  elapsed counts the seconds an exchange has spent *)
(* in DetectIntent; the context of the call expires after UpstreamTimeout   *)
(* seconds and is cancelled with the inbound request's context.             *)

\* what DetectIntent returns when its context expires, and when it is cancelled
DeadlineExceededReply ==
    [err |-> <<<<"context deadline exceeded">>>>, result |-> NilResult]

CanceledReply ==
    [err |-> <<<<"context canceled">>>>, result |-> NilResult]

\* the rest of detectIntentHandler, run on a reply
HandlerReturns(x, reply, encodeFails) ==
    IF variant = "CX"
    THEN RespondCX(x, reply, encodeFails)
    ELSE RespondES(x, reply, encodeFails)

\* a second passes while a call is in flight
Tick ==
    /\ phase = "serving"
    /\ \E i \in 1..Len(reqs) :
         /\ reqs[i].stage = "upstream"
         /\ reqs[i].elapsed < UpstreamTimeout
         /\ reqs' = [reqs EXCEPT ![i].elapsed = @ + 1]
    /\ UNCHANGED <<variant, env, phase, appConfig, sessionsClient, uuids, health>>

\* the timeout of the call's context elapses: DetectIntent returns an error
DeadlineExceeded ==
    /\ phase = "serving"
    /\ \E i \in 1..Len(reqs) :
         /\ reqs[i].stage = "upstream"
         /\ reqs[i].elapsed = UpstreamTimeout
         /\ reqs' = [reqs EXCEPT ![i] =
                        HandlerReturns(reqs[i], DeadlineExceededReply, FALSE)]
    /\ UNCHANGED <<variant, env, phase, appConfig, sessionsClient, uuids, health>>

\* the client disconnects: the server cancels r.Context()
ClientCancels ==
    /\ phase = "serving"
    /\ \E i \in 1..Len(reqs) :
         /\ reqs[i].stage = "upstream"
         /\ ~reqs[i].cancelled
         /\ reqs' = [reqs EXCEPT ![i].cancelled = TRUE]
    /\ UNCHANGED <<variant, env, phase, appConfig, sessionsClient, uuids, health>>

\* the cancellation reaches the call: DetectIntent returns an error
CallCanceled ==
    /\ phase = "serving"
    /\ \E i \in 1..Len(reqs) :
         /\ reqs[i].stage = "upstream"
         /\ reqs[i].cancelled
         /\ reqs' = [reqs EXCEPT ![i] =
                        HandlerReturns(reqs[i], CanceledReply, FALSE)]
    /\ UNCHANGED <<variant, env, phase, appConfig, sessionsClient, uuids, health>>

(* the response of a finished exchange reaches the client: the client is    *)
(* still connected, and the write happens before the connection's write     *)
(* deadline, set WriteTimeout after the request's header was read; the time *)
(* since then is the time spent reading the body and the time of the call   *)
ClientReceives(x) ==
    x.stage = "done" /\ ~x.cancelled /\ x.bodyRead + x.elapsed < WriteTimeout

\* the delays of a body that is read before the read deadline
BodyDelays == 0..(ReadTimeout - 1)

\* SpecTimeout: one valid request; time passes, the upstream answers or not,
\* the client stays or disconnects
ReceiveTimeout == reqs = <<>> /\ ReceiveAfter(ExtractRequests, reqs, BodyDelays)

ContextEnds == Tick \/ DeadlineExceeded \/ CallCanceled

NextTimeout ==
    \/ Main
    \/ ReceiveTimeout
    \/ UpstreamReturns(SeqReplies)
    \/ Tick
    \/ DeadlineExceeded
    \/ ClientCancels
    \/ CallCanceled
    \/ ListenAndServeFails

SpecTimeout ==
    Init /\ [][NextTimeout]_vars /\ WF_vars(Main) /\ WF_vars(ContextEnds)

\* SpecConc: up to MaxRequests different requests in flight at once, their
\* replies arriving in any order
ReceiveConc == Len(reqs) < MaxRequests /\ Receive(ConcRequests, reqs)

NextConc ==
    Main \/ ReceiveConc \/ UpstreamReturns(SeqReplies) \/ ListenAndServeFails

SpecConc == Init /\ [][NextConc]_vars

\* SpecStart: the start of the process and its first request; main runs
ReceiveStart == reqs = <<>> /\ Receive(SeqRequests, reqs)

NextStart ==
    Main \/ ReceiveStart \/ UpstreamReturns(SeqReplies) \/ ListenAndServeFails

SpecStart == Init /\ [][NextStart]_vars /\ WF_vars(Main)

----------------------------------------------------------------------------
(* Properties. *)

Exchanges == {reqs[i] : i \in 1..Len(reqs)}

\* the request reached the decoder and the decoder accepted its body
Decoded(x) == x.method = "POST" /\ x.body.kind \in DecodableKinds

Rejected(x, status) == x.stage = "done" /\ x.status = status /\ x.query = <<>>

\* C1: a POST whose decoded message is empty (or absent) is answered 400,
\* whatever its other fields, and causes no upstream call.
C1_EmptyMessageRejected ==
    \A x \in Exchanges :
        (Decoded(x) /\ Field(x.body.message) = EmptyStr) => Rejected(x, 400)

C1_Witness ==
    \E x \in Exchanges :
        /\ Decoded(x)
        /\ x.body.message = Present(EmptyStr)
        /\ Field(x.body.agentId) # EmptyStr
        /\ Field(x.body.sessionId) # EmptyStr
        /\ Rejected(x, 400)

C3_MalformedBodyIs400 ==
    \A x \in Exchanges :
        (x.method = "POST" /\ x.body.kind # "object")
            => Rejected(x, 400) /\ x.text = <<"Invalid request body">>

\* the agent id the CX handler is to use for the request x
EffectiveAgent(x) ==
    IF Field(x.body.agentId) = EmptyStr
    THEN appConfig.DefaultAgentID
    ELSE Field(x.body.agentId)

\* C4 (CX): an empty agentId is replaced by the configured default before
\* validation; the request is rejected for a missing agent only if the agent
\* is still empty then; a non-empty agentId of the request is used as given.
C4_DefaultAgentSubstituted ==
    variant = "CX" =>
        \A x \in Exchanges :
            Decoded(x) =>
                /\ (Field(x.body.message) # EmptyStr /\ Field(x.body.sessionId) # EmptyStr)
                       => (Rejected(x, 400) <=> EffectiveAgent(x) = EmptyStr)
                /\ x.query # <<>> =>
                       x.query[1].Session
                           = sessionPathCX(EffectiveAgent(x), Field(x.body.sessionId))

C4_Witness ==
    /\ variant = "CX"
    /\ appConfig.DefaultAgentID = <<"d">>
    /\ \E x \in Exchanges :
           /\ Decoded(x)
           /\ Field(x.body.agentId) = EmptyStr
           /\ x.query # <<>>
           /\ x.query[1].Session = sessionPathCX(<<"d">>, Field(x.body.sessionId))

\* C5 (CX): when DEFAULT_DIALOGFLOW_AGENT_ID is not set, a request without
\* agentId is rejected with 400 and causes no upstream call.
C5_NoDefaultNoAgentRejected ==
    (variant = "CX" /\ env.DEFAULT_DIALOGFLOW_AGENT_ID = Unset) =>
        \A x \in Exchanges :
            (Decoded(x) /\ Field(x.body.agentId) = EmptyStr) => Rejected(x, 400)

\* the handler of x has called upstream
Called(x) == x.query # <<>>

\* C6 (ES): an empty agentId is rejected with 400 and no upstream call even
\* when the message is not empty, although the session path does not carry
\* the agent id: two requests with different non-empty agent ids and the same
\* session id get the same session path.
C6_AgentRequiredButUnused ==
    variant = "ES" =>
        /\ \A x \in Exchanges :
               (Decoded(x) /\ Field(x.body.agentId) = EmptyStr) => Rejected(x, 400)
        /\ \A x, y \in Exchanges :
               (/\ Called(x) /\ Called(y)
                /\ Field(x.body.agentId) # Field(y.body.agentId)
                /\ x.sessionID = y.sessionID)
                   => x.query[1].Session = y.query[1].Session

C6_Witness ==
    /\ variant = "ES"
    /\ \E x, y \in Exchanges :
           /\ Decoded(x) /\ Field(x.body.message) # EmptyStr
           /\ Field(x.body.agentId) = EmptyStr /\ Rejected(x, 400)
           /\ Called(y) /\ Field(y.body.agentId) # EmptyStr

\* the two exchanges differ in their agent ids only and share a session path
C6_WitnessSamePath ==
    /\ variant = "ES"
    /\ \E x, y \in Exchanges :
           /\ Called(x) /\ Called(y)
           /\ Field(x.body.agentId) # Field(y.body.agentId)
           /\ x.query[1].Session = y.query[1].Session

\* C7: an empty sessionId is rejected with 400 and no upstream call in the CX
\* variant; in the ES variant it is never a reason to reject: the handler
\* calls upstream with a generated, non-empty session id, and the ids
\* generated for different requests differ.
C7_EmptySessionByVariant ==
    /\ variant = "CX" =>
           \A x \in Exchanges :
               (Decoded(x) /\ Field(x.body.sessionId) = EmptyStr) => Rejected(x, 400)
    /\ variant = "ES" =>
           /\ \A x \in Exchanges :
                  (/\ Decoded(x) /\ Field(x.body.sessionId) = EmptyStr
                   /\ Field(x.body.message) # EmptyStr
                   /\ Field(x.body.agentId) # EmptyStr)
                      => /\ Called(x) /\ x.generated
                         /\ x.sessionID # EmptyStr
                         /\ x.query[1].Session = sessionPathES(x.sessionID)
           /\ \A i, j \in 1..Len(reqs) :
                  (i # j /\ reqs[i].generated /\ reqs[j].generated)
                      => reqs[i].sessionID # reqs[j].sessionID

C7_Witness ==
    /\ variant = "ES"
    /\ \E i, j \in 1..Len(reqs) :
           /\ i # j
           /\ reqs[i].generated /\ reqs[j].generated
           /\ Called(reqs[i]) /\ Called(reqs[j])
           /\ reqs[i].body = reqs[j].body

\* the fixed fallback locale of the running variant
FallbackLanguage == IF variant = "CX" THEN <<"en">> ELSE <<"en-US">>

\* C8: the language code sent upstream is the languageCode of the request
\* when that is not empty and the fallback of the variant otherwise; it is
\* never empty, and an empty languageCode is never a reason to reject.
C8_LanguageCodeDefault ==
    \A x \in Exchanges :
        /\ Called(x) =>
               /\ x.query[1].LanguageCode
                      = IF Field(x.body.languageCode) # EmptyStr
                        THEN Field(x.body.languageCode)
                        ELSE FallbackLanguage
               /\ x.query[1].LanguageCode # EmptyStr
        /\ (Decoded(x) /\ x.status = 400) =>
               \/ Field(x.body.message) = EmptyStr
               \/ Field(x.body.agentId) = EmptyStr
               \/ (variant = "CX" /\ Field(x.body.sessionId) = EmptyStr)

C8_Witness ==
    \E x \in Exchanges :
        /\ Called(x)
        /\ Field(x.body.languageCode) = EmptyStr
        /\ x.query[1].LanguageCode = FallbackLanguage

\* the segments the session path of x is to have, in order
ExpectedSegments(x) ==
    IF variant = "CX"
    THEN << <<"projects">>, appConfig.ProjectID, <<"locations">>, appConfig.LocationID,
            <<"agents">>, EffectiveAgent(x), <<"sessions">>, x.sessionID >>
    ELSE << <<"projects">>, appConfig.ProjectID, <<"locations">>, appConfig.LocationID,
            <<"agent">>, <<"sessions">>, x.sessionID >>

\* C9: for every request that passes validation, whatever characters its
\* fields contain, the session path split on "/" is exactly the fixed
\* segments with the project, location, agent (CX) and session in order,
\* none of them empty and none extra.
C9_PathHasExactSegments ==
    \A x \in Exchanges :
        Called(x) =>
            /\ Split(x.query[1].Session) = ExpectedSegments(x)
            /\ \A k \in 1..Len(Split(x.query[1].Session)) :
                   Split(x.query[1].Session)[k] # EmptyStr

\* every field of the body of x is present and not empty
FullySpecified(x) ==
    /\ Decoded(x)
    /\ Field(x.body.message) # EmptyStr
    /\ Field(x.body.agentId) # EmptyStr
    /\ Field(x.body.sessionId) # EmptyStr
    /\ Field(x.body.languageCode) # EmptyStr

\* C10: two requests with the same fully specified input give the same
\* upstream query, whatever other requests are handled before them, between
\* the two and after them (requests that generate a session id and requests
\* that take the fallback language code among them); a
\* session id is generated only when the request has none, and a session id
\* of the client is used as it is.
C10_NormalizerIdempotent ==
    /\ \A i, j \in 1..Len(reqs) :
           (FullySpecified(reqs[i]) /\ reqs[i].body = reqs[j].body
            /\ reqs[j].method = "POST")
               => /\ Called(reqs[i]) /\ Called(reqs[j])
                  /\ reqs[i].query = reqs[j].query
    /\ \A x \in Exchanges :
           Called(x) =>
               /\ x.generated <=> Field(x.body.sessionId) = EmptyStr
               /\ Field(x.body.sessionId) # EmptyStr =>
                      /\ x.sessionID = Field(x.body.sessionId)
                      /\ x.query[1].Session
                             = IF variant = "CX"
                               THEN sessionPathCX(EffectiveAgent(x), Field(x.body.sessionId))
                               ELSE sessionPathES(Field(x.body.sessionId))

\* the same fully specified request twice, and between the two another
\* request that reached the upstream call: one that had a session id
\* generated (ES), or one without a language code (CX)
C10_Witness ==
    \E i, k, j \in 1..Len(reqs) :
        /\ i < k /\ k < j
        /\ FullySpecified(reqs[i]) /\ reqs[i].body = reqs[j].body
        /\ Called(reqs[i]) /\ Called(reqs[j])
        /\ reqs[i].query = reqs[j].query
        /\ Called(reqs[k]) /\ reqs[k].body # reqs[i].body
        /\ variant = "ES" => reqs[k].generated

----------------------------------------------------------------------------
(* Properties of the response. *)

\* DetectIntent returned to the handler of x without error and with a result
HasResult(x) ==
    x.reply # <<>> /\ x.reply[1].err = NoError /\ x.reply[1].result # NilResult

ResultOf(x) == x.reply[1].result[1]

\* the JSON body reached the response
Delivered(x) == x.json # <<>>

\* json.NewEncoder(w).Encode(apiResponse) returned an error
EncodeFailed(x) == x.stage = "done" /\ x.text = <<"Failed to encode response">>

\* the first response message is text-typed and has at least one text
FirstIsText(res) ==
    /\ Len(res.ResponseMessages) > 0
    /\ res.ResponseMessages[1].Text # <<>>
    /\ Len(res.ResponseMessages[1].Text[1].Text) > 0

FirstText(res) == res.ResponseMessages[1].Text[1].Text[1]

\* C11 (CX): when the first response message is text-typed with a non-empty
\* text list, the response (when it can be encoded) is a 200 whose text is
\* the first entry of that list, whatever entries and messages follow.
C11_FirstTextReturned ==
    variant = "CX" =>
        \A x \in Exchanges :
            (HasResult(x) /\ FirstIsText(ResultOf(x)) /\ ~EncodeFailed(x)) =>
                /\ x.status = 200 /\ Delivered(x)
                /\ x.json[1].text = FirstText(ResultOf(x))

C11_Witness ==
    /\ variant = "CX"
    /\ \E x \in Exchanges :
           /\ HasResult(x) /\ FirstIsText(ResultOf(x))
           /\ Len(ResultOf(x).ResponseMessages) > 1
           /\ ResultOf(x).ResponseMessages[1].Text[1].Text = << <<"Hello!">>, EmptyStr >>
           /\ ResultOf(x).ResponseMessages[2].Text # <<>>
           /\ Delivered(x) /\ x.json[1].text = <<"Hello!">>

\* C12 as claimed (CX): the text of the response is empty exactly when there
\* is no response message, or the first is not text-typed, or its text list
\* is empty.
C12_EmptyTextExactlyWhen ==
    variant = "CX" =>
        \A x \in Exchanges :
            (HasResult(x) /\ Delivered(x)) =>
                (x.json[1].text = EmptyStr <=> ~FirstIsText(ResultOf(x)))

\* C12 amended (CX): a result whose response can be encoded is answered
\* 200, and the text of the response is empty exactly when there is no response message, or the first is not
\* text-typed, or its text list is empty, or the first entry of that list is
\* itself the empty string; a text-typed message at a later position never
\* contributes.
C12_EmptyTextAmended ==
    variant = "CX" =>
        \A x \in Exchanges :
            (HasResult(x) /\ ~EncodeFailed(x)) =>
                /\ x.status = 200 /\ Delivered(x)
                /\ x.json[1].text = EmptyStr
                       <=> \/ ~FirstIsText(ResultOf(x))
                           \/ FirstText(ResultOf(x)) = EmptyStr

C12_Witness ==
    /\ variant = "CX"
    /\ \E x \in Exchanges :
           /\ HasResult(x)
           /\ Len(ResultOf(x).ResponseMessages) = 2
           /\ ResultOf(x).ResponseMessages[1].Text = <<>>
           /\ ResultOf(x).ResponseMessages[2].Text # <<>>
           /\ ResultOf(x).ResponseMessages[2].Text[1].Text = << <<"Hello!">> >>
           /\ x.status = 200 /\ Delivered(x) /\ x.json[1].text = EmptyStr

\* C13 (ES): the response (when it can be encoded) is a 200 that carries the
\* fulfillment text, the fulfillment
\* messages and the parameters of the result unchanged, and the display name
\* of the intent, or the empty string when the result has no intent; a
\* result without intent is answered 200 like any other.
C13_ESFieldsCopied ==
    variant = "ES" =>
        \A x \in Exchanges :
            (HasResult(x) /\ ~EncodeFailed(x)) =>
                /\ x.status = 200 /\ Delivered(x)
                /\ x.json[1].fulfillmentText = ResultOf(x).FulfillmentText
                /\ x.json[1].fulfillmentMessages = ResultOf(x).FulfillmentMessages
                /\ x.json[1].parameters = ResultOf(x).Parameters
                /\ x.json[1].intent
                       = IF ResultOf(x).Intent = <<>>
                         THEN EmptyStr
                         ELSE ResultOf(x).Intent[1].DisplayName

C13_Witness ==
    /\ variant = "ES"
    /\ \E x \in Exchanges :
           /\ HasResult(x)
           /\ ResultOf(x).Intent = <<>>
           /\ ResultOf(x).FulfillmentText = <<"Hi there">>
           /\ ResultOf(x).Parameters # <<>>
           /\ x.status = 200 /\ Delivered(x)
           /\ x.json[1].fulfillmentText = <<"Hi there">>
           /\ x.json[1].intent = EmptyStr

\* the session path the handler of x builds for session id sid
SessionPathFor(x, sid) ==
    IF variant = "CX"
    THEN sessionPathCX(EffectiveAgent(x), sid)
    ELSE sessionPathES(sid)

LastSegment(path) == Split(path)[Len(Split(path))]

\* the session id of a response body is the session part of the path sent
\* upstream for that request: the client's id when one was given, otherwise
\* the id generated for this request, never empty and never the id generated
\* for another request; a later request that sends the returned id (to the
\* same agent) is given the same session path
SessionIdEchoed ==
    /\ \A x \in Exchanges :
           Delivered(x) =>
               /\ x.status = 200 /\ Called(x)
               /\ x.json[1].sessionId # EmptyStr
               /\ x.json[1].sessionId = x.sessionID
               /\ x.query[1].Session = SessionPathFor(x, x.json[1].sessionId)
               /\ LastSegment(x.query[1].Session) = x.json[1].sessionId
               /\ x.json[1].sessionId
                      = IF Field(x.body.sessionId) # EmptyStr
                        THEN Field(x.body.sessionId)
                        ELSE x.sessionID
               /\ x.generated <=> Field(x.body.sessionId) = EmptyStr
    /\ \A i, j \in 1..Len(reqs) :
           (i # j /\ reqs[i].generated /\ reqs[j].generated)
               => reqs[i].sessionID # reqs[j].sessionID
    /\ \A i, j \in 1..Len(reqs) :
           (/\ i < j /\ Delivered(reqs[i]) /\ Called(reqs[j])
            /\ Field(reqs[j].body.sessionId) = reqs[i].json[1].sessionId
            /\ EffectiveAgent(reqs[j]) = EffectiveAgent(reqs[i]))
               => reqs[j].query[1].Session = reqs[i].query[1].Session

\* C14: every response of status 200 carries a session id, and that id is
\* the session part of the path sent upstream for the request (the client's
\* id or the one generated for it), so that sending it back continues the
\* session.
C14_Every200CarriesSessionId ==
    /\ \A x \in Exchanges :
           (x.stage = "done" /\ x.status = 200) => Delivered(x)
    /\ SessionIdEchoed

\* DetectIntent returned to the handler of x without error
ReturnedNoError(x) == x.reply # <<>> /\ x.reply[1].err = NoError

\* DetectIntent returned an error to the handler of x
ReturnedError(x) == x.reply # <<>> /\ x.reply[1].err # NoError

\* the text of the 500 answer to a reply without query result
EmptyResultText ==
    IF variant = "CX"
    THEN <<"Dialogflow CX returned empty result">>
    ELSE <<"Dialogflow returned empty result">>

\* C15 as claimed: whenever DetectIntent returns without error, the request
\* is answered 200 with a response body (when the body can be encoded), also
\* when the reply has no query result.
C15_ExtractorNeverFails ==
    \A x \in Exchanges :
        (ReturnedNoError(x) /\ ~EncodeFailed(x)) =>
            x.status = 200 /\ Delivered(x)

\* C15 amended: whenever DetectIntent returns without error and with a query
\* result, the request is answered 200 with a response body (when the body
\* can be encoded), and an absent intent (ES) or an absent or non-text first
\* message (CX) gives an empty field; a reply without query result is
\* answered 500 with the empty-result text and no response body.
C15_ExtractorAmended ==
    \A x \in Exchanges :
        /\ (HasResult(x) /\ ~EncodeFailed(x)) =>
               /\ x.status = 200 /\ Delivered(x)
               /\ (variant = "ES" /\ ResultOf(x).Intent = <<>>)
                      => x.json[1].intent = EmptyStr
               /\ (variant = "ES" /\ ResultOf(x).FulfillmentMessages = <<>>)
                      => x.json[1].fulfillmentMessages = <<>>
               /\ (variant = "CX" /\ ~FirstIsText(ResultOf(x)))
                      => x.json[1].text = EmptyStr
        /\ (ReturnedNoError(x) /\ x.reply[1].result = NilResult) =>
               /\ x.stage = "done" /\ x.status = 500
               /\ x.text = EmptyResultText
               /\ ~Delivered(x)

C15_Witness ==
    \E x \in Exchanges :
        /\ variant = "ES"
        /\ HasResult(x) /\ Delivered(x) /\ x.status = 200
        /\ ResultOf(x).Intent = <<>>
        /\ ResultOf(x).FulfillmentMessages = <<>>
        /\ ResultOf(x).FulfillmentText = EmptyStr
        /\ ResultOf(x).Parameters = <<>>
        /\ x.json[1].intent = EmptyStr
        /\ x.json[1].fulfillmentText = EmptyStr

\* s occurs in t as a contiguous part
Contains(t, s) ==
    \E k \in 0..(Len(t) - Len(s)) : SubSeq(t, k + 1, k + Len(s)) = s

\* C16: when DetectIntent returns an error, the request is answered 500 with
\* a text body that contains the upstream error message, and with no part of
\* a success response: no status 200, no JSON body, no session id.
C16_UpstreamErrorIs500 ==
    \A x \in Exchanges :
        ReturnedError(x) =>
            /\ x.stage = "done" /\ x.status = 500
            /\ Contains(x.text, x.reply[1].err[1])
            /\ ~Delivered(x)
            /\ ~Contains(x.text, x.sessionID)

C16_Witness ==
    \E x \in Exchanges :
        /\ ReturnedError(x) /\ x.generated
        /\ x.reply[1].err[1] = <<"rpc error">>
        /\ x.status = 500 /\ ~Delivered(x)
        /\ Contains(x.text, <<"rpc error">>)

\* C17: when encoding the response fails, the client receives status 500,
\* not 200.
C17_EncodeFailureIs500 ==
    \A x \in Exchanges : EncodeFailed(x) => x.status = 500

\* the request of x is a POST with a decodable body and every required field
PassesValidation(x) ==
    /\ Decoded(x)
    /\ Field(x.body.message) # EmptyStr
    /\ IF variant = "CX"
       THEN EffectiveAgent(x) # EmptyStr /\ Field(x.body.sessionId) # EmptyStr
       ELSE Field(x.body.agentId) # EmptyStr

RECURSIVE TotalCalls(_)
\* the number of DetectIntent calls made for the exchanges of log
TotalCalls(log) ==
    IF log = <<>> THEN 0 ELSE Head(log).calls + TotalCalls(Tail(log))

\* C18: each request that passes validation causes exactly one DetectIntent
\* call, each request answered 400 or 405 causes none, and a failed call is
\* not repeated: the number of calls equals the number of validated requests.
C18_OneCallPerValidRequest ==
    /\ \A x \in Exchanges :
           /\ PassesValidation(x) => x.calls = 1 /\ Called(x)
           /\ ~PassesValidation(x) => x.calls = 0 /\ x.status \in {400, 405}
           /\ x.status \in {400, 405} => x.calls = 0 /\ ~Called(x)
           /\ ReturnedError(x) => x.calls = 1
    /\ TotalCalls(reqs)
           = Cardinality({i \in 1..Len(reqs) : PassesValidation(reqs[i])})

C18_Witness ==
    /\ Len(reqs) = 2
    /\ \E i, j \in 1..Len(reqs) :
           /\ ReturnedError(reqs[i]) /\ reqs[i].status = 500 /\ reqs[i].calls = 1
           /\ reqs[j].status \in {400, 405} /\ reqs[j].calls = 0
    /\ TotalCalls(reqs) = 1

ConfigAbsent ==
    \/ env["DIALOGFLOW_PROJECT_ID"] \in {Unset, SetTo(EmptyStr)}
    \/ env["DIALOGFLOW_LOCATION_ID"] \in {Unset, SetTo(EmptyStr)}

\* C20: when the project or the location is absent, the process exits before
\* the client is created and before it serves, so no request is ever
\* handled; and every session path sent upstream is built from a non-empty
\* project and a non-empty location.
C20_MissingConfigIsFatal ==
    /\ [](ConfigAbsent =>
              /\ phase \in {"boot", "exited"}
              /\ sessionsClient = "nil"
              /\ appConfig = ZeroConfig
              /\ reqs = <<>>)
    /\ (ConfigAbsent ~> phase = "exited")
    /\ [](\A x \in Exchanges :
              Called(x) =>
                  /\ appConfig.ProjectID # EmptyStr
                  /\ appConfig.LocationID # EmptyStr
                  /\ x.query[1].Session = SessionPathFor(x, x.sessionID)
                  /\ Split(x.query[1].Session)[2] = appConfig.ProjectID
                  /\ Split(x.query[1].Session)[4] = appConfig.LocationID)

C20_Witness ==
    /\ phase = "exited"
    /\ env["DIALOGFLOW_PROJECT_ID"] = SetTo(<<"proj">>)
    /\ env["DIALOGFLOW_LOCATION_ID"] = SetTo(EmptyStr)
    /\ sessionsClient = "nil"
    /\ reqs = <<>>

----------------------------------------------------------------------------
(* Properties of time and cancellation. *)

\* the call of x ended because its context expired or was cancelled
ContextEnded(x) ==
    x.reply \in {<<DeadlineExceededReply>>, <<CanceledReply>>}

\* a call never outlives its context; a call ended by its context is answered
\* 500 by the handler, which made that one call only; and the handler of every
\* validated request finishes, also when the upstream never answers, unless
\* the process ends first
HandlerAlwaysAnswers ==
    /\ [](\A x \in Exchanges :
              /\ x.elapsed <= UpstreamTimeout
              /\ ContextEnded(x) =>
                     /\ x.stage = "done" /\ x.status = 500 /\ x.calls = 1
                     /\ ~Delivered(x)
                     /\ x.reply = <<DeadlineExceededReply>>
                            => x.elapsed = UpstreamTimeout
                     /\ x.reply = <<CanceledReply>> => x.cancelled)
    /\ ((reqs # <<>> /\ Called(reqs[1]))
            ~> \/ reqs # <<>> /\ reqs[1].stage = "done" /\ reqs[1].status # 0
               \/ phase = "exited")

\* C21: each call is bounded by the 30-second timeout and by the inbound
\* request's cancellation: such a call ends with an error and is answered 500
\* without another call, and every validated request whose client is still
\* connected eventually gets its response, also when the upstream never
\* answers (as long as the process runs).
C21_EveryRequestGetsResponse ==
    /\ HandlerAlwaysAnswers
    /\ ((reqs # <<>> /\ Called(reqs[1]))
            ~> \/ reqs # <<>> /\ (reqs[1].cancelled \/ ClientReceives(reqs[1]))
               \/ phase = "exited")

----------------------------------------------------------------------------
(* Properties of concurrent requests. *)

\* x as it was while its call was in flight
Pending(x) ==
    [x EXCEPT !.stage = "upstream", !.reply = <<>>, !.status = 0,
              !.text = EmptyStr, !.json = <<>>]

\* the upstream query built from the request of x alone and the configuration
OwnQuery(x) ==
    [Session      |-> SessionPathFor(x, x.sessionID),
     Text         |-> Field(x.body.message),
     LanguageCode |-> IF Field(x.body.languageCode) = EmptyStr
                      THEN FallbackLanguage
                      ELSE Field(x.body.languageCode)]

\* every exchange is what its own request, the configuration and its own
\* reply make it
OwnOutcome ==
    /\ reqs # <<>> => phase \in {"serving", "exited"}
    /\ (phase = "serving" \/ reqs # <<>>)
           => sessionsClient = "open" /\ appConfig = loadConfig
    /\ \A x \in Exchanges :
           /\ PassesValidation(x) <=> Called(x)
           /\ ~Called(x) =>
                  x = detectIntentHandler([method |-> x.method, body |-> x.body])
           /\ Called(x) =>
                  /\ x.query[1] = OwnQuery(x)
                  /\ IF Field(x.body.sessionId) # EmptyStr
                     THEN x.sessionID = Field(x.body.sessionId) /\ ~x.generated
                     ELSE x.generated
           /\ (Called(x) /\ x.stage = "done") =>
                  /\ x.reply # <<>>
                  /\ \E encodeFails \in BOOLEAN :
                         x = HandlerReturns(Pending(x), x.reply[1], encodeFails)
                  /\ Delivered(x) => x.json[1].sessionId = x.sessionID
    /\ \A i, j \in 1..Len(reqs) :
           (i # j /\ reqs[i].generated) => reqs[i].sessionID # reqs[j].sessionID

\* a step changes at most one exchange, and of that one only the response;
\* the configuration and the client are written during startup only
OwnStep ==
    /\ (appConfig' # appConfig \/ sessionsClient' # sessionsClient)
           => phase = "boot" /\ reqs = <<>> /\ reqs' = <<>>
    /\ Len(reqs') >= Len(reqs)
    /\ \A i \in 1..Len(reqs) :
           reqs'[i] # reqs[i] =>
               /\ reqs[i].stage = "upstream"
               /\ Pending(reqs'[i]) = reqs[i]
               /\ \A j \in 1..Len(reqs') : j # i => reqs'[j] = reqs[j]

\* C22: under any interleaving, the response and the upstream query of a
\* request depend on its own input, the startup configuration and the reply
\* to its own call only; the configuration and the client are written before
\* the server dispatches and not afterwards; and no value of one request
\* appears in the query or the response of another.
C22_RequestsIndependent == []OwnOutcome /\ [][OwnStep]_vars

C22_Witness ==
    /\ Len(reqs) = 2
    /\ reqs[1].generated /\ reqs[1].stage = "upstream"
    /\ Field(reqs[1].body.languageCode) = EmptyStr
    /\ reqs[1].query[1].LanguageCode = FallbackLanguage
    /\ Field(reqs[2].body.languageCode) = <<"id">>
    /\ reqs[2].sessionID = <<"s1">>
    /\ Delivered(reqs[2]) /\ reqs[2].json[1].sessionId = <<"s1">>
    /\ reqs[2].query[1].LanguageCode = <<"id">>
    /\ EffectiveAgent(reqs[1]) # EffectiveAgent(reqs[2])

====
